---- MODULE Spec2Model ----
(***************************************************************************)
(* A model of build_gpcr/management/commands/build_homology_models.py:     *)
(* generic-number arithmetic, the reference/template alignment merge, the  *)
(* PDB coordinate parser, the similarity-ranked template table and the     *)
(* bulge resolver.                                                         *)
(*                                                                         *)
(* Python str values are sequences of one-character strings, so that       *)
(* split, int(), str(), len(str()) and replace are computed the way the    *)
(* code computes them.  None is the one-element sequence <<"None">>, which *)
(* no str value equals.                                                    *)
(***************************************************************************)
EXTENDS Integers, Sequences, FiniteSets, TLC

VARIABLES
    gn_arg,      \* the key handed to gn_num_extract / the first gn_indecer
    gn_delim,    \* the delimiter argument
    gn_val,      \* the value after the gn_indecer calls made so far
    gn_trail,    \* the direction arguments of those calls, in order
    gn_pair,     \* <<>> before gn_num_extract(gn_arg) was called, <<result>> after
    ref,         \* a.proteins[0].alignment: the reference's aligned sequence
    temp,        \* a.proteins[1].alignment: the main template's aligned sequence
    main_alignment, \* <<>>, or <<the value run_main_alignment returned>>
    stdout,      \* the lines printed so far
    pdb_file,    \* the coordinate file a parser call reads
    pdb_request, \* the generic_numbers argument of fetch_lines_from_pdb
    pdb_parsed,  \* <<>>, or <<how pdb_array_creator(pdb_file) ended>>
    pdb_fetched, \* <<>>, or <<how fetch_lines_from_pdb(pdb_file, pdb_request) ended>>
    session,     \* the HomologyModeling object (self in its methods)
    structures,  \* the Structure table of the database
    scores,      \* the similarity the alignment engine computes for each Protein
    called,      \* the method of self called last, "" before the first call
    raised,      \* the exception that call ended with, "" when it returned
    returned,    \* <<>>, or <<the value that call returned>>
    engine_work, \* the calls that call made on its Alignment object, in order
    engine_proteins, \* a.proteins of that Alignment object
    residue_table, \* the Residue table of the database
    file_store,  \* the coordinate file of every Structure, by its pdb
    switcher     \* <<>>, or <<the locals run_non_conserved_switcher ended with>>

gn_vars == <<gn_arg, gn_delim, gn_val, gn_trail, gn_pair>>

merge_vars == <<ref, temp, main_alignment, stdout>>

pdb_vars == <<pdb_file, pdb_request, pdb_parsed, pdb_fetched>>

session_vars ==
    <<session, structures, scores, called, raised, returned, engine_work,
      engine_proteins>>

switch_vars == <<residue_table, file_store, switcher>>

vars == <<gn_vars, merge_vars, pdb_vars, session_vars, switch_vars>>

-----------------------------------------------------------------------------
(* Bounds *)

\* the number of chained gn_indecer calls explored
MaxSteps == 2

\* the longest arbitrary key explored
MaxKeyLen == 5

\* the most segments, and the most positions over all segments, of an
\* aligned sequence handed to run_main_alignment
MaxSegments == 2

MaxPositions == 2

\* the most lines of a coordinate file
MaxLines == 3

\* the most Structure rows of the database
MaxStructures == 4

-----------------------------------------------------------------------------
(* Python values *)

None == <<"None">>

Digits == <<"0", "1", "2", "3", "4", "5", "6", "7", "8", "9">>

IsDigit(c) == \E i \in 1..10 : Digits[i] = c

DigitVal(c) == (CHOOSE i \in 1..10 : Digits[i] = c) - 1

RECURSIVE NatToStr(_)
NatToStr(n) ==
    IF n < 10 THEN <<Digits[n + 1]>>
    ELSE NatToStr(n \div 10) \o <<Digits[(n % 10) + 1]>>

\* str(n) of an int
IntToStr(n) == IF n < 0 THEN <<"-">> \o NatToStr(0 - n) ELSE NatToStr(n)

RECURSIVE DigitsVal(_)
DigitsVal(s) ==
    IF s = <<>> THEN 0
    ELSE 10 * DigitsVal(SubSeq(s, 1, Len(s) - 1)) + DigitVal(s[Len(s)])

Unsigned(s) ==
    IF s # <<>> /\ s[1] \in {"+", "-"} THEN SubSeq(s, 2, Len(s)) ELSE s

\* whether int(s) returns (it raises ValueError otherwise); the keys explored
\* hold no whitespace and no underscore
IsPyInt(s) ==
    LET u == Unsigned(s)
    IN u # <<>> /\ \A i \in 1..Len(u) : IsDigit(u[i])

\* int(s) of a str for which IsPyInt(s)
StrToInt(s) ==
    IF s[1] = "-" THEN 0 - DigitsVal(Unsigned(s)) ELSE DigitsVal(Unsigned(s))

\* s.split(d) for a one-character d
RECURSIVE split(_, _)
split(s, d) ==
    LET found == {j \in 1..Len(s) : s[j] = d}
    IN IF found # {}
       THEN LET i == CHOOSE j \in found : \A k \in found : j <= k
            IN <<SubSeq(s, 1, i - 1)>> \o split(SubSeq(s, i + 1, Len(s)), d)
       ELSE <<s>>

\* s.replace(a, b) for one-character a and b
replace(s, a, b) == [i \in 1..Len(s) |-> IF s[i] = a THEN b ELSE s[i]]

-----------------------------------------------------------------------------
(* GPCRDBParsingPDB.gn_num_extract, gn_indecer *)

\* the pair ('/', '/')
SentinelPair == [sentinel |-> TRUE, tm |-> 0, num |-> 0]

\* the str '/'
Sentinel == <<"/">>

\* whether the try block of gn_num_extract raises: None has no split
\* (AttributeError), split[1] is missing (IndexError), int() refuses a field
\* (ValueError)
int_pair_raises(fields) ==
    \/ Len(fields) < 2
    \/ ~IsPyInt(fields[1])
    \/ ~IsPyInt(fields[2])

gn_num_extract_raises(gn, delimiter) ==
    gn = None \/ int_pair_raises(split(gn, delimiter))

\* int(split[0]), int(split[1]), or the sentinel pair of the except branch
int_pair(fields) ==
    IF int_pair_raises(fields)
    THEN SentinelPair
    ELSE [sentinel |-> FALSE,
          tm       |-> StrToInt(fields[1]),
          num      |-> StrToInt(fields[2])]

gn_num_extract(gn, delimiter) ==
    IF gn = None THEN SentinelPair ELSE int_pair(split(gn, delimiter))

\* gn_indecer with the backward-step correction of bulge positions applied to
\* two-digit positions as well
gn_indecer_always_corrects(gn, delimiter, direction) ==
    LET sp == gn_num_extract(gn, delimiter)
        dir == IF direction < 0 THEN direction + 1 ELSE direction
    IN IF ~sp.sentinel
       THEN IF Len(IntToStr(sp.num)) = 2
            THEN IntToStr(sp.tm) \o <<delimiter>> \o IntToStr(sp.num + dir)
            ELSE IF Len(IntToStr(sp.num)) = 3
            THEN IntToStr(sp.tm) \o <<delimiter>>
                      \o IntToStr(StrToInt(SubSeq(IntToStr(sp.num), 1, 2)) + dir)
            ELSE Sentinel
       ELSE Sentinel

gn_indecer(gn, delimiter, direction) ==
    LET sp == gn_num_extract(gn, delimiter)
    IN IF ~sp.sentinel
       THEN IF Len(IntToStr(sp.num)) = 2
            THEN IntToStr(sp.tm) \o <<delimiter>> \o IntToStr(sp.num + direction)
            ELSE IF Len(IntToStr(sp.num)) = 3
            THEN LET dir == IF direction < 0 THEN direction + 1 ELSE direction
                 IN IntToStr(sp.tm) \o <<delimiter>>
                      \o IntToStr(StrToInt(SubSeq(IntToStr(sp.num), 1, 2)) + dir)
            ELSE Sentinel
       ELSE Sentinel

-----------------------------------------------------------------------------
(* OrderedDict: a sequence of <<key, value>> pairs with distinct keys, in   *)
(* insertion order; assigning to a present key keeps its place.            *)

DictHas(d, k) == \E i \in 1..Len(d) : d[i][1] = k

DictGet(d, k) == d[CHOOSE i \in 1..Len(d) : d[i][1] = k][2]

DictSet(d, k, v) ==
    IF DictHas(d, k)
    THEN [i \in 1..Len(d) |-> IF d[i][1] = k THEN <<k, v>> ELSE d[i]]
    ELSE Append(d, <<k, v>>)

DictKeys(d) == [i \in 1..Len(d) |-> d[i][1]]

Min(a, b) == IF a < b THEN a ELSE b

-----------------------------------------------------------------------------
(* HomologyModeling.run_main_alignment *)

\* the key "TM"+str(segment_count)+"_end" of a segment-boundary marker
TMEnd(n) == <<"T", "M">> \o IntToStr(n) \o <<"_", "e", "n", "d">>

\* a position of an aligned sequence is <<generic number, assigned, code>>:
\* position[0], position[1] != False and position[2] of the code
PosGn(position) == position[1]

PosAssigned(position) == position[2]

PosCode(position) == position[3]

GnError == <<"Error: Generic numbers don't align">>

\* the locals of run_main_alignment before the loop (lines 171-174)
MergeStart ==
    [reference_dict   |-> <<>>,
     template_dict    |-> <<>>,
     reference_string |-> <<>>,
     template_string  |-> <<>>,
     matching_string  |-> <<>>,
     printed          |-> <<>>]

\* merge_position with a mismatch of residue codes classified by the
\* template's code in place of '.'
merge_position_mismatch_as_template(m, ref_position, temp_position) ==
    IF PosAssigned(ref_position) /\ PosAssigned(temp_position)
    THEN IF PosGn(ref_position) = PosGn(temp_position)
         THEN [m EXCEPT
                 !.reference_dict = DictSet(@, PosGn(ref_position), PosCode(ref_position)),
                 !.template_dict = DictSet(@, PosGn(temp_position), PosCode(temp_position)),
                 !.reference_string = Append(@, PosCode(ref_position)),
                 !.template_string = Append(@, PosCode(temp_position)),
                 !.matching_string =
                     Append(@, PosCode(temp_position))]
         ELSE [m EXCEPT !.printed = Append(@, GnError)]
    ELSE IF PosAssigned(ref_position) /\ ~PosAssigned(temp_position)
    THEN LET m1 == [m EXCEPT
                      !.reference_dict = DictSet(@, PosGn(ref_position), PosCode(ref_position)),
                      !.reference_string = Append(@, PosCode(ref_position))]
         IN IF PosCode(temp_position) = "-"
            THEN [m1 EXCEPT
                    !.template_dict = DictSet(@, PosGn(temp_position), "-"),
                    !.template_string = Append(@, "-"),
                    !.matching_string = Append(@, "-")]
            ELSE IF PosCode(temp_position) = "_"
            THEN [m1 EXCEPT
                    !.template_dict = DictSet(@, PosGn(temp_position), "x"),
                    !.template_string = Append(@, "x"),
                    !.matching_string = Append(@, "x")]
            ELSE m1
    ELSE IF PosCode(ref_position) = "-" /\ PosAssigned(temp_position)
    THEN [m EXCEPT
            !.reference_dict = DictSet(@, PosGn(ref_position), "-"),
            !.template_dict = DictSet(@, PosGn(temp_position), PosCode(temp_position)),
            !.reference_string = Append(@, "-"),
            !.template_string = Append(@, PosCode(temp_position)),
            !.matching_string = Append(@, "-")]
    ELSE IF PosCode(ref_position) = "-" /\ PosCode(temp_position) = "-"
    THEN [m EXCEPT
            !.reference_dict = DictSet(@, PosGn(ref_position), "-"),
            !.template_dict = DictSet(@, PosGn(temp_position), "-"),
            !.reference_string = Append(@, "-"),
            !.template_string = Append(@, "-"),
            !.matching_string = Append(@, "-")]
    ELSE m

\* the body of the inner loop (lines 180-217)
merge_position(m, ref_position, temp_position) ==
    IF PosAssigned(ref_position) /\ PosAssigned(temp_position)
    THEN IF PosGn(ref_position) = PosGn(temp_position)
         THEN [m EXCEPT
                 !.reference_dict = DictSet(@, PosGn(ref_position), PosCode(ref_position)),
                 !.template_dict = DictSet(@, PosGn(temp_position), PosCode(temp_position)),
                 !.reference_string = Append(@, PosCode(ref_position)),
                 !.template_string = Append(@, PosCode(temp_position)),
                 !.matching_string =
                     Append(@, IF PosCode(ref_position) = PosCode(temp_position)
                               THEN PosCode(ref_position) ELSE ".")]
         ELSE [m EXCEPT !.printed = Append(@, GnError)]
    ELSE IF PosAssigned(ref_position) /\ ~PosAssigned(temp_position)
    THEN LET m1 == [m EXCEPT
                      !.reference_dict = DictSet(@, PosGn(ref_position), PosCode(ref_position)),
                      !.reference_string = Append(@, PosCode(ref_position))]
         IN IF PosCode(temp_position) = "-"
            THEN [m1 EXCEPT
                    !.template_dict = DictSet(@, PosGn(temp_position), "-"),
                    !.template_string = Append(@, "-"),
                    !.matching_string = Append(@, "-")]
            ELSE IF PosCode(temp_position) = "_"
            THEN [m1 EXCEPT
                    !.template_dict = DictSet(@, PosGn(temp_position), "x"),
                    !.template_string = Append(@, "x"),
                    !.matching_string = Append(@, "x")]
            ELSE m1
    ELSE IF PosCode(ref_position) = "-" /\ PosAssigned(temp_position)
    THEN [m EXCEPT
            !.reference_dict = DictSet(@, PosGn(ref_position), "-"),
            !.template_dict = DictSet(@, PosGn(temp_position), PosCode(temp_position)),
            !.reference_string = Append(@, "-"),
            !.template_string = Append(@, PosCode(temp_position)),
            !.matching_string = Append(@, "-")]
    ELSE IF PosCode(ref_position) = "-" /\ PosCode(temp_position) = "-"
    THEN [m EXCEPT
            !.reference_dict = DictSet(@, PosGn(ref_position), "-"),
            !.template_dict = DictSet(@, PosGn(temp_position), "-"),
            !.reference_string = Append(@, "-"),
            !.template_string = Append(@, "-"),
            !.matching_string = Append(@, "-")]
    ELSE m

\* the inner loop over zip(ref_segment, temp_segment), from pair i on
RECURSIVE merge_positions(_, _, _, _)
merge_positions(m, ref_segment, temp_segment, i) ==
    IF i > Min(Len(ref_segment), Len(temp_segment)) THEN m
    ELSE merge_positions(merge_position(m, ref_segment[i], temp_segment[i]),
                         ref_segment, temp_segment, i + 1)

\* the segment-boundary marker appended after a segment (lines 218-222)
merge_segment_end(m, segment_count) ==
    [m EXCEPT
       !.reference_dict = DictSet(@, TMEnd(segment_count), "/"),
       !.template_dict = DictSet(@, TMEnd(segment_count), "/"),
       !.reference_string = Append(@, "/"),
       !.template_string = Append(@, "/"),
       !.matching_string = Append(@, "/")]

\* the outer loop over zip(ref, temp), from segment segment_count on
RECURSIVE merge_segments(_, _, _, _)
merge_segments(m, r, t, segment_count) ==
    IF segment_count > Min(Len(r), Len(t)) THEN m
    ELSE merge_segments(
             merge_segment_end(
                 merge_positions(m, r[segment_count], t[segment_count], 1),
                 segment_count),
             r, t, segment_count + 1)

\* AlignedReferenceAndTemplate(..., reference_dict, template_dict, matching_string);
\* the function has no path that ends otherwise than by this return
AlignedReferenceAndTemplate(m) ==
    [outcome        |-> "returned",
     reference_dict |-> m.reference_dict,
     template_dict  |-> m.template_dict,
     aligned_string |-> m.matching_string]

run_main_alignment(r, t) ==
    AlignedReferenceAndTemplate(merge_segments(MergeStart, r, t, 1))

run_main_alignment_printed(r, t) == merge_segments(MergeStart, r, t, 1).printed

-----------------------------------------------------------------------------
(* GPCRDBParsingPDB.pdb_array_creator, fetch_lines_from_pdb                 *)
(*                                                                         *)
(* A line of a coordinate file is a record: kind "ATOM" with the atom name,*)
(* the residue number (positive) and bfac, the text that group 8 of the CA *)
(* pattern of line 486 captures (<<>> when that pattern does not match the *)
(* line); any other kind is a record that no pattern matches.              *)

AtomLine(atom, res, bfac) ==
    [kind |-> "ATOM", atom |-> atom, res |-> res, bfac |-> bfac]

OtherLine == [kind |-> "TER", atom |-> "", res |-> 0, bfac |-> <<>>]

\* a key of pdb_array that is the int n, which no str key equals
IntKey(n) == <<"int">> \o IntToStr(n)

StartsWith(s, prefix) ==
    Len(prefix) <= Len(s) /\ SubSeq(s, 1, Len(prefix)) = prefix

\* res0 and res1 (lines 464-465): the pattern holds the digits of n followed
\* by ([0-9\s+-.]+), which takes further digits too, so it matches every
\* ATOM line whose residue number starts with the digits of n
res_matches(line, n) ==
    line.kind = "ATOM" /\ StartsWith(IntToStr(line.res), IntToStr(n))

\* resx (line 466): any ATOM line
resx_matches(line) == line.kind = "ATOM"

\* the body of the first loop (lines 464-481)
pdb_read_line(st, line) ==
    IF res_matches(line, st.res_num)
    THEN [st EXCEPT !.atom_lines = DictSet(@, line.atom, line)]
    ELSE IF res_matches(line, st.res_num + 1)
    THEN [res_num    |-> st.res_num + 1,
          pdb_array  |-> DictSet(st.pdb_array, IntKey(st.res_num), st.atom_lines),
          atom_lines |-> <<<<line.atom, line>>>>]
    ELSE IF resx_matches(line)
    THEN [res_num    |-> line.res,
          pdb_array  |-> st.pdb_array,
          atom_lines |-> <<<<line.atom, line>>>>]
    ELSE st

RECURSIVE pdb_read_lines(_, _, _)
pdb_read_lines(st, lines, i) ==
    IF i > Len(lines) THEN st
    ELSE pdb_read_lines(pdb_read_line(st, lines[i]), lines, i + 1)

\* pdb_array after line 482, for lines whose first line is an ATOM line
pdb_blocks(lines) ==
    LET st == pdb_read_lines([res_num    |-> lines[1].res,
                              pdb_array  |-> <<>>,
                              atom_lines |-> <<>>], lines, 1)
    IN DictSet(st.pdb_array, IntKey(st.res_num), st.atom_lines)

\* whether the pattern of line 486 matches a CA line
ca_matches(line) == line.bfac # <<>>

\* the key lines 490-494 give a residue whose CA line matches
ca_key(line) ==
    IF line.bfac[1] = "-"
    THEN SubSeq(line.bfac, 2, Len(line.bfac)) \o <<"1">>
    ELSE line.bfac

\* the second loop (lines 485-496), from entry i of pdb_array on
RECURSIVE pdb_rekey(_, _, _)
pdb_rekey(out_array, pdb_array, i) ==
    IF i > Len(pdb_array) THEN [raised |-> "", out_array |-> out_array]
    ELSE LET key == pdb_array[i][1]
             value == pdb_array[i][2]
         IN IF ~DictHas(value, "CA")
            THEN [raised |-> "KeyError", out_array |-> <<>>]
            ELSE IF ca_matches(DictGet(value, "CA"))
            THEN pdb_rekey(DictSet(out_array, ca_key(DictGet(value, "CA")), value),
                           pdb_array, i + 1)
            ELSE pdb_rekey(DictSet(out_array, key, value), pdb_array, i + 1)

\* a file is [exists, lines]; open() raises for a file that does not exist
pdb_array_creator(file) ==
    IF ~file.exists THEN [raised |-> "FileNotFoundError", out_array |-> <<>>]
    ELSE IF file.lines = <<>> THEN [raised |-> "IndexError", out_array |-> <<>>]
    ELSE IF file.lines[1].kind # "ATOM"
    THEN [raised |-> "AttributeError", out_array |-> <<>>]
    ELSE pdb_rekey(<<>>, pdb_blocks(file.lines), 1)

\* the loop of lines 447-448, from generic number i on
RECURSIVE fetch_keys(_, _, _, _)
fetch_keys(output, pdb_array, generic_numbers, i) ==
    IF i > Len(generic_numbers) THEN [raised |-> "", output |-> output]
    ELSE LET gn == generic_numbers[i]
         IN IF gn = None THEN [raised |-> "AttributeError", output |-> <<>>]
            ELSE IF ~DictHas(pdb_array, replace(gn, "x", "."))
            THEN [raised |-> "KeyError", output |-> <<>>]
            ELSE fetch_keys(DictSet(output, replace(gn, "x", "."),
                                    DictGet(pdb_array, replace(gn, "x", "."))),
                            pdb_array, generic_numbers, i + 1)

\* fetch_lines_from_pdb with the loop of lines 447-448 leaving out a generic
\* number that is no key of the array (pdb_array.get in place of indexing)
RECURSIVE fetch_present_keys(_, _, _, _)
fetch_present_keys(output, pdb_array, generic_numbers, i) ==
    IF i > Len(generic_numbers) THEN [raised |-> "", output |-> output]
    ELSE LET key == replace(generic_numbers[i], "x", ".")
         IN fetch_present_keys(
                IF DictHas(pdb_array, key)
                THEN DictSet(output, key, DictGet(pdb_array, key)) ELSE output,
                pdb_array, generic_numbers, i + 1)

fetch_lines_omitting_missing(file, generic_numbers) ==
    LET pdb_array == pdb_array_creator(file)
    IN IF pdb_array.raised # ""
       THEN [raised |-> pdb_array.raised, output |-> <<>>]
       ELSE fetch_present_keys(<<>>, pdb_array.out_array, generic_numbers, 1)

\* file: the file named by pdb and preferred_chain under the path
fetch_lines_from_pdb(file, generic_numbers) ==
    LET pdb_array == pdb_array_creator(file)
    IN IF pdb_array.raised # ""
       THEN [raised |-> pdb_array.raised, output |-> <<>>]
       ELSE fetch_keys(<<>>, pdb_array.out_array, generic_numbers, 1)

-----------------------------------------------------------------------------
(* HomologyModeling: the session object `self` and the template search      *)
(*                                                                         *)
(* A Structure is [pdb, parent, state, resolution, preferred_chain], parent *)
(* being the id of its parent Protein.  An attribute of self that has not  *)
(* been assigned yet is <<>>, an assigned one <<value>>.  query_states is   *)
(* [kind |-> "default"] or [kind |-> "list", states |-> <<...>>].           *)

\* the Protein whose entry_name is self.reference_id
RefProtein == 0

DefaultStates == [kind |-> "default", states |-> <<>>]

StatesList(l) == [kind |-> "list", states |-> l]

\* HomologyModeling.__init__
NewSession(state, query_states, testing) ==
    [state                |-> state,
     query_states         |-> query_states,
     testing              |-> testing,
     structures_datatable |-> <<>>,
     similarity_table     |-> <<>>,
     similarity_table_all |-> <<>>,
     main_pdb_id          |-> <<>>]

\* order_by('protein__parent', ...) of a set with one structure per parent
RECURSIVE OrderByParent(_)
OrderByParent(S) ==
    IF S = {} THEN <<>>
    ELSE LET first == CHOOSE x \in S : \A y \in S : x.parent <= y.parent
         IN <<first>> \o OrderByParent(S \ {first})

\* Structure.objects.filter(state__name__in=states)
\*     .order_by('protein__parent','resolution').distinct('protein__parent')
\* and, with exclude_reference, .exclude(protein__parent__entry_name=reference_id)
QueryStructures(db, states, exclude_reference) ==
    LET matching == {x \in db : /\ x.state \in states
                                /\ ~(exclude_reference /\ x.parent = RefProtein)}
        best == {x \in matching :
                    \A y \in matching :
                        y.parent = x.parent => x.resolution <= y.resolution}
    IN OrderByParent(best)

SeqToSet(q) == {q[i] : i \in 1..Len(q)}

\* a query that tests none of the listed states
get_targets_structure_data_unchecked(self, db, state, query_states) ==
    LET self1 == [self EXCEPT !.state = state, !.query_states = query_states]
        table == QueryStructures(db,
                     IF query_states.kind = "default" THEN {state}
                     ELSE SeqToSet(query_states.states), self1.testing)
    IN [raised |-> "",
        self   |-> [self1 EXCEPT !.structures_datatable = <<table>>],
        value  |-> <<table>>]

\* returns [raised, self, value]: lines 74-75 assign state and query_states
\* before anything is tested
get_targets_structure_data(self, db, state, query_states) ==
    LET self1 == [self EXCEPT !.state = state, !.query_states = query_states]
    IN IF query_states.kind = "default"
       THEN LET table == QueryStructures(db, {state}, self1.testing)
            IN [raised |-> "",
                self   |-> [self1 EXCEPT !.structures_datatable = <<table>>],
                value  |-> <<table>>]
       ELSE IF \E i \in 1..Len(query_states.states) :
                  ~\E x \in db : x.state = query_states.states[i]
       THEN [raised |-> "AssertionError", self |-> self1, value |-> <<>>]
       ELSE LET table == QueryStructures(db, SeqToSet(query_states.states),
                                         self1.testing)
            IN [raised |-> "",
                self   |-> [self1 EXCEPT !.structures_datatable = <<table>>],
                value  |-> <<table>>]

\* the parent Protein of every structure, in order
get_targets_protein_data(structures_data) ==
    [i \in 1..Len(structures_data) |-> structures_data[i].parent]

\* the calls run_pairwise_alignment makes on the Alignment object (lines 117-129)
EngineCalls(reference, calculate_similarity) ==
    (IF reference THEN <<"load_reference_protein">> ELSE <<>>)
        \o <<"load_proteins", "load_segments", "build_alignment">>
        \o (IF calculate_similarity THEN <<"calculate_similarity">> ELSE <<>>)

\* a.proteins: the reference, when loaded, and then the targets in the order
\* they were loaded
EngineProteins(reference, targets) ==
    (IF reference THEN <<RefProtein>> ELSE <<>>) \o targets

\* lines 116-130: the Alignment object is loaded and built; the result of
\* every method is [raised, self, engine, proteins, value], value being <<>>
\* or <<what the method returns>>
build_alignment(self, reference, calculate_similarity, targets) ==
    [raised   |-> "",
     self     |-> self,
     engine   |-> EngineCalls(reference, calculate_similarity),
     proteins |-> EngineProteins(reference, targets),
     value    |-> <<EngineProteins(reference, targets)>>]

\* line 114 once get_targets_structure_data has ended as got
align_queried(got, reference, calculate_similarity) ==
    IF got.raised # ""
    THEN [raised |-> got.raised, self |-> got.self, engine |-> <<>>,
          proteins |-> <<>>, value |-> <<>>]
    ELSE build_alignment(got.self, reference, calculate_similarity,
                         get_targets_protein_data(got.value[1]))

\* targets = <<>> stands for both None and the empty list, which
\* `not targets` treats alike
run_pairwise_alignment(self, db, reference, calculate_similarity, targets) ==
    IF targets = <<>>
    THEN align_queried(
             get_targets_structure_data(self, db, self.state, self.query_states),
             reference, calculate_similarity)
    ELSE build_alignment(self, reference, calculate_similarity, targets)

\* a sort that puts x ahead of the entries it ties with
InsertByScore_ahead_of_ties(ordered, x) ==
    LET ahead == {i \in 1..Len(ordered) : ordered[i][2] > x[2]}
    IN SubSeq(ordered, 1, Cardinality(ahead)) \o <<x>>
          \o SubSeq(ordered, Cardinality(ahead) + 1, Len(ordered))

\* sorted(..., key=lambda x: x[1], reverse=True) puts x behind every entry
\* whose score is not lower: the sort is stable
InsertByScore(ordered, x) ==
    LET ahead == {i \in 1..Len(ordered) : ordered[i][2] >= x[2]}
    IN SubSeq(ordered, 1, Cardinality(ahead)) \o <<x>>
          \o SubSeq(ordered, Cardinality(ahead) + 1, Len(ordered))

RECURSIVE sorted_reverse(_)
sorted_reverse(q) ==
    IF q = <<>> THEN <<>>
    ELSE InsertByScore(sorted_reverse(SubSeq(q, 1, Len(q) - 1)), q[Len(q)])

\* the loop of lines 306-308, from entry i of sim_table_order on
RECURSIVE attach_structures(_, _, _, _)
attach_structures(table, sim_table_order, structure_data, i) ==
    IF i > Len(sim_table_order) THEN [raised |-> "", table |-> table]
    ELSE LET matches == SelectSeq(structure_data,
                                  LAMBDA x : x.parent = sim_table_order[i][1])
         IN IF matches = <<>>
            THEN [raised |-> "IndexError", table |-> <<>>]
            ELSE attach_structures(
                     DictSet(table, matches[1], sim_table_order[i][2]),
                     sim_table_order, structure_data, i + 1)

\* lines 302-304: a.proteins without the reference, each with
\* int(similarity); similarity[p] is the similarity attribute the engine gives
\* protein p, a decimal str
sim_table_all_temp(proteins, similarity) ==
    [i \in 1..(Len(proteins) - 1) |->
        <<proteins[i + 1], StrToInt(similarity[proteins[i + 1]])>>]

\* line 310 once the loop of lines 306-308 has ended as attached
similarity_table_all(alignment_all, attached) ==
    [raised   |-> attached.raised,
     self     |-> alignment_all.self,
     engine   |-> alignment_all.engine,
     proteins |-> alignment_all.proteins,
     value    |-> IF attached.raised = "" THEN <<attached.table>> ELSE <<>>]

\* lines 300-310 once run_pairwise_alignment has ended as alignment_all
table_of_alignment(alignment_all, structure_data, similarity) ==
    IF alignment_all.raised # ""
    THEN alignment_all
    ELSE similarity_table_all(
             alignment_all,
             attach_structures(
                 <<>>,
                 sorted_reverse(sim_table_all_temp(alignment_all.proteins, similarity)),
                 structure_data, 1))

\* lines 298-310 once get_targets_structure_data has ended as got
table_of_targets(got, db, similarity) ==
    IF got.raised # ""
    THEN [raised |-> got.raised, self |-> got.self, engine |-> <<>>,
          proteins |-> <<>>, value |-> <<>>]
    ELSE table_of_alignment(
             run_pairwise_alignment(got.self, db, TRUE, TRUE,
                                    get_targets_protein_data(got.value[1])),
             got.value[1], similarity)

create_ordered_similarity_table(self, db, similarity, state, query_states) ==
    table_of_targets(get_targets_structure_data(self, db, state, query_states),
                     db, similarity)

\* lines 139-152 once create_ordered_similarity_table has ended as made
main_structure(made) ==
    IF made.raised # ""
    THEN made
    ELSE IF made.value[1] = <<>>
    THEN [made EXCEPT !.raised = "IndexError",
                      !.self.similarity_table = made.value,
                      !.value = <<>>]
    ELSE [made EXCEPT !.self.similarity_table = made.value,
                      !.self.main_pdb_id = <<made.value[1][1][1].pdb>>,
                      !.value = <<made.value[1][1][1]>>]

\* reading self.structures_datatable before it was ever assigned raises
\* AttributeError
select_main_template(self, db, similarity) ==
    IF self.structures_datatable = <<>>
    THEN [raised |-> "AttributeError", self |-> self, engine |-> <<>>,
          proteins |-> <<>>, value |-> <<>>]
    ELSE main_structure(
             create_ordered_similarity_table(self, db, similarity,
                                             self.state, self.query_states))

-----------------------------------------------------------------------------
(* Bulges.bulge_in_reference and HomologyModeling.run_non_conserved_switcher *)
(*                                                                         *)
(* A Residue row is [protein, label].  files gives for the pdb of every    *)
(* Structure the coordinate file its name and preferred chain lead to.  An *)
(* attribute or local that may be unassigned is [assigned, value]; a value *)
(* that may be None is <<>> for None and <<v>> otherwise.                  *)

Unassigned == [assigned |-> FALSE, value |-> <<>>]

Assigned(v) == [assigned |-> TRUE, value |-> v]

\* Bulges.__init__, and the locals of bulge_in_reference before its loops;
\* probed lists <<pdb, exception>> of every fetch made, in order
NewBulge == [template |-> Unassigned, alt_bulge |-> Unassigned, probed |-> <<>>]

\* the generic numbers bulge_in_reference asks of a file (line 337)
BulgeWindow(gn) ==
    <<gn_indecer(gn, "x", -2), gn_indecer(gn, "x", -1), gn,
      gn_indecer(gn, "x", 1), gn_indecer(gn, "x", 2)>>

\* lines 327-334: the structures of the table whose parent Protein has a
\* Residue with the generic number
bulge_templates_of(gn, similarity_table, residues) ==
    SelectSeq(DictKeys(similarity_table),
              LAMBDA structure :
                  \E match \in residues :
                      match.label = gn /\ match.protein = structure.parent)

\* the loop of lines 335-341, from entry i of bulge_templates on, and its body
\* once the fetch has ended as fetched
RECURSIVE probe_templates(_, _, _, _, _)
RECURSIVE probe_template(_, _, _, _, _, _)

\* a loop body that goes on to the next entry after a fetch that succeeded
probe_template_without_break(b, fetched, bulge_templates, gn, files, i) ==
    probe_templates(
        IF fetched.raised = ""
        THEN [template  |-> Assigned(<<bulge_templates[i]>>),
              alt_bulge |-> Assigned(fetched.output),
              probed    |-> Append(b.probed, <<bulge_templates[i].pdb, "">>)]
        ELSE [template  |-> Assigned(<<>>),
              alt_bulge |-> b.alt_bulge,
              probed    |-> Append(b.probed, <<bulge_templates[i].pdb, fetched.raised>>)],
        bulge_templates, gn, files, i + 1)

probe_template(b, fetched, bulge_templates, gn, files, i) ==
    IF fetched.raised = ""
    THEN [template  |-> Assigned(<<bulge_templates[i]>>),
          alt_bulge |-> Assigned(fetched.output),
          probed    |-> Append(b.probed, <<bulge_templates[i].pdb, "">>)]
    ELSE probe_templates(
             [template  |-> Assigned(<<>>),
              alt_bulge |-> b.alt_bulge,
              probed    |-> Append(b.probed, <<bulge_templates[i].pdb, fetched.raised>>)],
             bulge_templates, gn, files, i + 1)

probe_templates(b, bulge_templates, gn, files, i) ==
    IF i > Len(bulge_templates) THEN b
    ELSE probe_template(
             b,
             fetch_lines_from_pdb(files[bulge_templates[i].pdb], BulgeWindow(gn)),
             bulge_templates, gn, files, i)

\* lines 343-346: reading alt_bulge when no fetch has bound it raises
\* UnboundLocalError; the result is [raised, bulge, value]
bulge_return(b) ==
    IF ~b.alt_bulge.assigned
    THEN [raised |-> "UnboundLocalError", bulge |-> b, value |-> <<>>]
    ELSE [raised |-> "", bulge |-> b,
          value  |-> IF b.alt_bulge.value # <<>> THEN <<b.alt_bulge.value>> ELSE <<>>]

bulge_in_reference(gn, similarity_table, residues, files) ==
    bulge_return(
        probe_templates(NewBulge, bulge_templates_of(gn, similarity_table, residues),
                        gn, files, 1))

\* the locals of run_non_conserved_switcher before its loops (lines 235-238);
\* bulges lists the calls of bulge_in_reference, scanned counts the positions
\* the first loop has finished
SwitcherStart(alignment_input) ==
    [alignment_input |-> alignment_input,
     ref_length      |-> 0,
     non_cons_count  |-> 0,
     ref_bulge_list  |-> <<>>,
     temp_bulge_list |-> <<>>,
     ref_const_list  |-> <<>>,
     temp_const_list |-> <<>>,
     bulges          |-> <<>>,
     scanned         |-> 0,
     raised          |-> ""]

\* d[gn-1] not in ['-','/'] and d[gn+1] not in ['-','/'], as "yes", "no" or
\* the exception a missing key raises
flanks_assigned(d, before, after) ==
    IF ~DictHas(d, before) THEN "KeyError"
    ELSE IF DictGet(d, before) \in {"-", "/"} THEN "no"
    ELSE IF ~DictHas(d, after) THEN "KeyError"
    ELSE IF DictGet(d, after) \in {"-", "/"} THEN "no"
    ELSE "yes"

\* d[key]=='-' and the flanks of gn are assigned (the tests of lines 250, 262)
gap_between_assigned(d, key, gn) ==
    IF DictGet(d, key) # "-" THEN "no"
    ELSE flanks_assigned(d, gn_indecer(gn, "x", -1), gn_indecer(gn, "x", 1))

\* len(str(gn_num)) with gn_num the second value of gn_num_extract(gn, 'x')
gn_num_digits(gn) ==
    IF gn_num_extract(gn, "x").sentinel THEN 1
    ELSE Len(IntToStr(gn_num_extract(gn, "x").num))

\* the record of a constriction between the flanks of gn (lines 260, 274)
constriction(d, gn) ==
    <<gn_indecer(gn, "x", -1) \o <<"-">> \o gn_indecer(gn, "x", 1),
      <<DictGet(d, gn_indecer(gn, "x", -1)), "-", DictGet(d, gn_indecer(gn, "x", 1))>>>>

\* lines 267-269 once bulge_in_reference has ended as found
bulge_recorded(w, gn, found) ==
    IF found.raised # ""
    THEN [w EXCEPT !.bulges = Append(@, [gn |-> gn, found |-> found]),
                   !.raised = found.raised]
    ELSE IF ~found.bulge.template.assigned
    THEN [w EXCEPT !.bulges = Append(@, [gn |-> gn, found |-> found]),
                   !.raised = "AttributeError"]
    ELSE [w EXCEPT !.bulges = Append(@, [gn |-> gn, found |-> found]),
                   !.ref_bulge_list = Append(@, <<gn, found.bulge.template.value>>)]

\* lines 249-274 for a position whose aligned_string holds '-', once the test
\* of line 250 has ended as ref_gap and that of line 262 as temp_gap
gap_classified(w, ref_gap, temp_gap, temp_res, gn, similarity_table, residues, files) ==
    IF ref_gap = "KeyError" THEN [w EXCEPT !.raised = "KeyError"]
    ELSE IF ref_gap = "yes"
    THEN IF gn_num_digits(gn) = 3
         THEN [w EXCEPT !.temp_bulge_list =
                   Append(@, <<gn, DictGet(w.alignment_input.template_dict, temp_res)>>)]
         ELSE [w EXCEPT !.ref_const_list =
                   Append(@, constriction(w.alignment_input.reference_dict, gn))]
    ELSE IF temp_gap = "KeyError" THEN [w EXCEPT !.raised = "KeyError"]
    ELSE IF temp_gap = "yes"
    THEN IF gn_num_digits(gn) = 3
         THEN bulge_recorded(w, gn,
                  bulge_in_reference(gn, similarity_table, residues, files))
         ELSE [w EXCEPT !.temp_const_list =
                   Append(@, constriction(w.alignment_input.template_dict, gn))]
    ELSE w

\* the body of the first loop (lines 244-274) for the triple
\* ref_res, temp_res, aligned_res; switch_bulges and switch_constrictions
\* keep their default True
scan_position(w, ref_res, temp_res, aligned_res, similarity_table, residues, files) ==
    IF aligned_res # "-" THEN w
    ELSE gap_classified(
             w,
             gap_between_assigned(w.alignment_input.reference_dict, ref_res, ref_res),
             gap_between_assigned(w.alignment_input.template_dict, temp_res, ref_res),
             temp_res, ref_res, similarity_table, residues, files)

\* one more position finished, unless it raised
position_scanned(w) ==
    IF w.raised # "" THEN w ELSE [w EXCEPT !.scanned = @ + 1]

\* the length of zip(reference_dict, template_dict, aligned_string)
zip_length(a) ==
    Min(Len(a.reference_dict), Min(Len(a.template_dict), Len(a.aligned_string)))

\* the first loop, from triple i on; an exception ends it
RECURSIVE scan_positions(_, _, _, _, _)
scan_positions(w, similarity_table, residues, files, i) ==
    IF w.raised # "" \/ i > zip_length(w.alignment_input) THEN w
    ELSE scan_positions(
             position_scanned(
                 scan_position(w,
                               w.alignment_input.reference_dict[i][1],
                               w.alignment_input.template_dict[i][1],
                               w.alignment_input.aligned_string[i],
                               similarity_table, residues, files)),
             similarity_table, residues, files, i + 1)

\* the second loop (lines 278-288)
count_non_conserved(w) ==
    IF w.raised # "" THEN w
    ELSE [w EXCEPT
            !.ref_length =
                Cardinality({i \in 1..zip_length(w.alignment_input) :
                    w.alignment_input.reference_dict[i][1] \notin {<<"-">>, <<"/">>}}),
            !.non_cons_count =
                Cardinality({i \in 1..zip_length(w.alignment_input) :
                    w.alignment_input.aligned_string[i] = "."})]

\* the function ends as its loops ended; it has no return statement
switcher_return(made, w) ==
    [raised   |-> w.raised,
     self     |-> [made.self EXCEPT !.similarity_table_all = made.value],
     engine   |-> made.engine,
     proteins |-> made.proteins,
     value    |-> IF w.raised = "" THEN <<None>> ELSE <<>>,
     switcher |-> w]

\* lines 241-288 once create_ordered_similarity_table has ended as made
switcher_scan(made, residues, files, alignment_input) ==
    IF made.raised # ""
    THEN [raised   |-> made.raised,
          self     |-> made.self,
          engine   |-> made.engine,
          proteins |-> made.proteins,
          value    |-> <<>>,
          switcher |-> [SwitcherStart(alignment_input) EXCEPT !.raised = made.raised]]
    ELSE switcher_return(
             made,
             count_non_conserved(
                 scan_positions(SwitcherStart(alignment_input), made.value[1],
                                residues, files, 1)))

\* returns [raised, self, engine, proteins, value, switcher]; reading
\* self.structures_datatable before it was ever assigned raises AttributeError
run_non_conserved_switcher(self, db, similarity, residues, files, alignment_input) ==
    IF self.structures_datatable = <<>>
    THEN [raised   |-> "AttributeError",
          self     |-> self,
          engine   |-> <<>>,
          proteins |-> <<>>,
          value    |-> <<>>,
          switcher |-> [SwitcherStart(alignment_input) EXCEPT !.raised = "AttributeError"]]
    ELSE switcher_scan(
             create_ordered_similarity_table(
                 self, db, similarity, self.state,
                 StatesList(<<"Active", "Inactive">>)),
             residues, files, alignment_input)

-----------------------------------------------------------------------------
(* The keys and arguments explored *)

\* the delimiters the program uses: 'x' in keys, '.' in coordinate files
Delimiters == {"x", "."}

\* the steps the program asks for: -2, -1, +1, +2
Directions == {-2, -1, 1, 2}

\* transmembrane segments TM1..TM7
Segments == 1..7

TwoDigitPositions == 10..99

\* bulge positions: a two-digit anchor followed by the insertion index 1
ThreeDigitPositions == {10 * p + 1 : p \in TwoDigitPositions}

MakeGn(seg, d, pos) == IntToStr(seg) \o <<d>> \o IntToStr(pos)

ValidGns(d) == {MakeGn(s, d, p) : s \in Segments, p \in TwoDigitPositions}

BulgeGns(d) == {MakeGn(s, d, p) : s \in {1, 7}, p \in ThreeDigitPositions}

MarkerKeys == {None, Sentinel, <<"-">>} \cup {TMEnd(n) : n \in Segments}

KeyAlphabet == {"1", "5", "x", "/", "-"}

RECURSIVE StrsOfLen(_, _)
StrsOfLen(A, n) ==
    IF n = 0 THEN {<<>>}
    ELSE {Append(s, c) : s \in StrsOfLen(A, n - 1), c \in A}

\* the strs over KeyAlphabet of at most len characters
ArbitraryKeys(len) == UNION {StrsOfLen(KeyAlphabet, n) : n \in 0..len}

\* gn has the form <int><delimiter><int>
IsGnForm(gn, d) ==
    /\ gn # None
    /\ Len(split(gn, d)) = 2
    /\ IsPyInt(split(gn, d)[1])
    /\ IsPyInt(split(gn, d)[2])

-----------------------------------------------------------------------------
(* Generic-number arithmetic as a state machine: a caller parses a key and *)
(* steps from it, each step starting from the previous step's result.      *)

GnStart(keys) ==
    /\ gn_arg \in keys
    /\ gn_val = gn_arg
    /\ gn_trail = <<>>
    /\ gn_pair = <<>>

\* the positions the alignment engine may give for one protein: assigned
\* positions with a generic number and a residue code, and unassigned ones
\* holding a gap '-' or a short-sequence mark '_', whose generic number may
\* be None or repeat
AlignedPositions ==
    {<<MakeGn(1, "x", 50), TRUE, "A">>, <<MakeGn(1, "x", 50), TRUE, "L">>,
     <<MakeGn(1, "x", 51), TRUE, "A">>,
     <<MakeGn(1, "x", 50), FALSE, "-">>, <<MakeGn(1, "x", 51), FALSE, "-">>,
     <<None, FALSE, "-">>, <<MakeGn(1, "x", 50), FALSE, "_">>}

\* a column: the reference's and the template's position at one index
Columns == AlignedPositions \X AlignedPositions

RECURSIVE SeqsOfLen(_, _)
SeqsOfLen(S, n) ==
    IF n = 0 THEN {<<>>}
    ELSE {Append(q, x) : q \in SeqsOfLen(S, n - 1), x \in S}

\* the sequences of exactly nseg segments with at most npos columns in all
RECURSIVE Layouts(_, _)
Layouts(nseg, npos) ==
    IF nseg = 0 THEN {<<>>}
    ELSE UNION {{<<seg>> \o rest : seg \in SeqsOfLen(Columns, n),
                                   rest \in Layouts(nseg - 1, npos - n)}
                : n \in 0..npos}

\* the layouts of at most nsegs segments with at most npos columns in all
AlignedPairs(nsegs, npos) == UNION {Layouts(nseg, npos) : nseg \in 0..nsegs}

\* one side of a sequence of segments of columns: side 1 the reference's
\* aligned sequence, side 2 the template's
SideOf(layout, side) ==
    [sg \in 1..Len(layout) |->
        [i \in 1..Len(layout[sg]) |-> layout[sg][i][side]]]

\* the lines of coordinate files: N and CA atoms of residues whose numbers
\* repeat, follow each other, jump and share leading digits; CA lines without
\* a generic-number field, with one, and with a negative (bulge) one; and a
\* line that is no ATOM record
PdbResNums == {1, 2, 3, 10}

PdbBfacs == {<<>>, <<"1", ".", "5", "0">>, <<"-", "1", ".", "5", "0">>}

PdbLines ==
    {AtomLine("N", r, <<>>) : r \in PdbResNums}
        \cup {AtomLine("CA", r, b) : r \in PdbResNums, b \in PdbBfacs}
        \cup {OtherLine}

MissingFile == [exists |-> FALSE, lines |-> <<>>]

\* no file, and the files of at most nlines lines
PdbFiles(nlines) ==
    {MissingFile}
        \cup {[exists |-> TRUE, lines |-> l] :
                 l \in UNION {SeqsOfLen(PdbLines, n) : n \in 0..nlines}}

PdbRequests ==
    {<<MakeGn(1, "x", 50)>>,
     <<MakeGn(1, "x", 50), MakeGn(1, "x", 501)>>,
     <<MakeGn(1, "x", 501), MakeGn(1, "x", 51), MakeGn(1, "x", 50)>>}

\* the Structure rows the database may hold: rows 1 and 2 share the parent
\* Protein 1 and differ in resolution (2.1 and 1.8, in tenths), row 3 is a
\* structure of the reference itself, every further row has a parent of its
\* own; resolutions are distinct
StructureRow(k, state) ==
    [pdb             |-> k,
     parent          |-> IF k <= 2 THEN 1 ELSE IF k = 3 THEN RefProtein ELSE k - 2,
     state           |-> state,
     resolution      |-> IF k = 1 THEN 21 ELSE IF k = 2 THEN 18 ELSE 20 + k,
     preferred_chain |-> IF k = 2 THEN <<"A", "B">> ELSE <<"A">>]

States == {"Active", "Inactive"}

Databases ==
    {{StructureRow(k, f[k]) : k \in {j \in 1..MaxStructures : f[j] # "absent"}} :
        f \in [1..MaxStructures -> States \cup {"absent"}]}

Proteins == {StructureRow(k, "Active").parent : k \in 1..MaxStructures}

\* the similarity attribute of every Protein: a decimal str, compared after
\* int(); the reference is identical to itself, and the proteins two parents
\* apart are scored alike, so that ties have a protein between them
Similarities ==
    {[p \in Proteins |-> IF p = RefProtein THEN <<"1", "0", "0">>
                         ELSE IF p % 2 = 1 THEN odd ELSE even] :
        odd \in {<<"2">>, <<"1", "0">>}, even \in {<<"2">>, <<"1", "0">>}}

QueryStatesArgs ==
    {DefaultStates, StatesList(<<"Inactive">>), StatesList(<<"Active", "Inactive">>)}

\* the databases the bulge search is explored over: a row, when present, is
\* Active if its pdb is odd and Inactive if it is even
SwitcherDatabases ==
    {db \in Databases :
        \A x \in db : x.state = (IF x.pdb % 2 = 1 THEN "Active" ELSE "Inactive")}

\* the similarities the bulge search is explored over: Proteins 1 and 2 rank
\* either way
SwitcherSimilarities == {f \in Similarities : f[1] # f[2]}

\* the generic numbers of the alignments given to run_non_conserved_switcher:
\* one segment with the bulge positions 1x501 and 1x511
SwitcherGns ==
    <<MakeGn(1, "x", 49), MakeGn(1, "x", 50), MakeGn(1, "x", 501),
      MakeGn(1, "x", 51), MakeGn(1, "x", 511), MakeGn(1, "x", 52),
      MakeGn(1, "x", 53)>>

SwitcherBulgeGns == {MakeGn(1, "x", 501), MakeGn(1, "x", 511)}

\* one segment of SwitcherGns with a gap at the generic numbers in gaps
SwitcherSegment(gaps) ==
    [i \in 1..Len(SwitcherGns) |->
        IF SwitcherGns[i] \in gaps THEN <<SwitcherGns[i], FALSE, "-">>
        ELSE <<SwitcherGns[i], TRUE, "A">>]

\* the output of run_main_alignment for a reference and a template that have
\* gaps: the reference has one bulge, two bulges, or a constriction and the
\* template a bulge; the template lacks the first position of the segment;
\* the reference lacks the last one
SwitcherAlignments ==
    {run_main_alignment(<<SwitcherSegment(g[1])>>, <<SwitcherSegment(g[2])>>) :
        g \in {<<{}, {MakeGn(1, "x", 501)}>>,
               <<{}, SwitcherBulgeGns>>,
               <<{MakeGn(1, "x", 501)}, {MakeGn(1, "x", 51), MakeGn(1, "x", 511)}>>,
               <<{}, {MakeGn(1, "x", 49)}>>,
               <<{MakeGn(1, "x", 53)}, {}>>}}

\* a coordinate file with one residue per bfac, numbered from 1
WindowFile(bfacs) ==
    [exists |-> TRUE,
     lines  |-> [i \in 1..Len(bfacs) |-> AtomLine("CA", i, bfacs[i])]]

\* a file with the residues of SwitcherGns, the bulges written with the minus
\* sign, and one with the residues of two-digit positions only
FullFile ==
    WindowFile(<<MakeGn(1, ".", 49), MakeGn(1, ".", 50),
                 <<"-">> \o MakeGn(1, ".", 50), MakeGn(1, ".", 51),
                 <<"-">> \o MakeGn(1, ".", 51), MakeGn(1, ".", 52),
                 MakeGn(1, ".", 53)>>)

PlainFile ==
    WindowFile(<<MakeGn(1, ".", 49), MakeGn(1, ".", 50), MakeGn(1, ".", 51),
                 MakeGn(1, ".", 52), MakeGn(1, ".", 53)>>)

\* what the repository holds for a Protein: "unlisted" has the full file but
\* no Residue rows for the bulges, "full" has both, "plain" and "missing" have
\* the rows with a file lacking the bulges or with no file
CandidateKinds == {"unlisted", "full", "plain", "missing"}

\* one kind for every Protein; a Protein without a Structure in db, which is
\* never a candidate, is "full"
KindsOver(db) ==
    {kind \in [Proteins -> CandidateKinds] :
        \A p \in Proteins : (\A x \in db : x.parent # p) => kind[p] = "full"}

ResiduesOf(kind) ==
    {[protein |-> p, label |-> gn] :
        p \in {q \in Proteins : kind[q] # "unlisted"}, gn \in SwitcherBulgeGns}

FilesOf(kind) ==
    [k \in 1..MaxStructures |->
        IF kind[StructureRow(k, "Active").parent] \in {"unlisted", "full"} THEN FullFile
        ELSE IF kind[StructureRow(k, "Active").parent] = "plain" THEN PlainFile
        ELSE MissingFile]

\* no alignment has been given or merged
MergeIdle ==
    /\ ref = <<>>
    /\ temp = <<>>
    /\ main_alignment = <<>>
    /\ stdout = <<>>

\* no coordinate file has been read
PdbIdle ==
    /\ pdb_file = MissingFile
    /\ pdb_request = <<>>
    /\ pdb_parsed = <<>>
    /\ pdb_fetched = <<>>

\* no residues, no coordinate files, run_non_conserved_switcher not called
SwitcherIdle ==
    /\ residue_table = {}
    /\ file_store = <<>>
    /\ switcher = <<>>

\* HomologyModeling('gp139_human', 'Inactive') over an empty database, no
\* method called yet
SessionIdle ==
    /\ session = NewSession("Inactive", DefaultStates, FALSE)
    /\ structures = {}
    /\ scores = <<>>
    /\ called = ""
    /\ raised = ""
    /\ returned = <<>>
    /\ engine_work = <<>>
    /\ engine_proteins = <<>>

InitGn ==
    /\ gn_delim \in Delimiters
    /\ GnStart(ValidGns(gn_delim) \cup BulgeGns(gn_delim) \cup MarkerKeys)
    /\ MergeIdle
    /\ PdbIdle
    /\ SessionIdle
    /\ SwitcherIdle

InitGnKeys ==
    /\ gn_delim \in Delimiters
    /\ GnStart(ArbitraryKeys(MaxKeyLen) \cup MarkerKeys)
    /\ MergeIdle
    /\ PdbIdle
    /\ SessionIdle
    /\ SwitcherIdle

GnNumExtract ==
    /\ gn_pair = <<>>
    /\ gn_pair' = <<gn_num_extract(gn_arg, gn_delim)>>
    /\ UNCHANGED <<gn_arg, gn_delim, gn_val, gn_trail>>

GnIndecer(direction) ==
    /\ Len(gn_trail) < MaxSteps
    /\ gn_val' = gn_indecer(gn_val, gn_delim, direction)
    /\ gn_trail' = Append(gn_trail, direction)
    /\ UNCHANGED <<gn_arg, gn_delim, gn_pair>>

NextGn ==
    \/ GnNumExtract
    \/ \E direction \in Directions : GnIndecer(direction)

SpecGn == InitGn /\ [][NextGn /\ UNCHANGED <<merge_vars, pdb_vars, session_vars, switch_vars>>]_vars

SpecGnKeys == InitGnKeys /\ [][NextGn /\ UNCHANGED <<merge_vars, pdb_vars, session_vars, switch_vars>>]_vars

-----------------------------------------------------------------------------
(* The alignment merge as a state machine: the engine has aligned the      *)
(* reference and the main template; run_main_alignment merges them.        *)

GnIdle ==
    /\ gn_arg = None
    /\ gn_delim = "x"
    /\ gn_val = None
    /\ gn_trail = <<>>
    /\ gn_pair = <<>>

InitMerge ==
    /\ \E layout \in AlignedPairs(MaxSegments, MaxPositions) :
          /\ ref = SideOf(layout, 1)
          /\ temp = SideOf(layout, 2)
    /\ main_alignment = <<>>
    /\ stdout = <<>>
    /\ GnIdle
    /\ PdbIdle
    /\ SessionIdle
    /\ SwitcherIdle

RunMainAlignment ==
    /\ main_alignment = <<>>
    /\ main_alignment' = <<run_main_alignment(ref, temp)>>
    /\ stdout' = stdout \o run_main_alignment_printed(ref, temp)
    /\ UNCHANGED <<ref, temp>>

NextMerge == RunMainAlignment

SpecMerge == InitMerge /\ [][NextMerge /\ UNCHANGED <<gn_vars, pdb_vars, session_vars, switch_vars>>]_vars

-----------------------------------------------------------------------------
(* The coordinate parser as a state machine: a file is on disk; a caller   *)
(* parses it, or fetches a list of generic numbers from it.                *)

InitPdb ==
    /\ pdb_file \in PdbFiles(MaxLines)
    /\ pdb_request \in PdbRequests
    /\ pdb_parsed = <<>>
    /\ pdb_fetched = <<>>
    /\ GnIdle
    /\ MergeIdle
    /\ SessionIdle
    /\ SwitcherIdle

PdbArrayCreator ==
    /\ pdb_parsed = <<>>
    /\ pdb_parsed' = <<pdb_array_creator(pdb_file)>>
    /\ UNCHANGED <<pdb_file, pdb_request, pdb_fetched>>

FetchLinesFromPdb ==
    /\ pdb_fetched = <<>>
    /\ pdb_fetched' = <<fetch_lines_from_pdb(pdb_file, pdb_request)>>
    /\ UNCHANGED <<pdb_file, pdb_request, pdb_parsed>>

NextPdb == PdbArrayCreator \/ FetchLinesFromPdb

SpecPdb ==
    InitPdb /\ [][NextPdb /\ UNCHANGED <<gn_vars, merge_vars, session_vars, switch_vars>>]_vars

-----------------------------------------------------------------------------
(* The template search as a state machine: a session is constructed over a *)
(* database; its methods are called in any order.                          *)

InitSession ==
    /\ structures \in Databases
    /\ scores \in Similarities
    /\ \E query_states \in QueryStatesArgs, testing \in BOOLEAN :
          session = NewSession("Inactive", query_states, testing)
    /\ called = ""
    /\ raised = ""
    /\ returned = <<>>
    /\ engine_work = <<>>
    /\ engine_proteins = <<>>
    /\ GnIdle
    /\ MergeIdle
    /\ PdbIdle
    /\ SwitcherIdle

\* the call of a method of the session ends as result
SessionCall(method, result) ==
    \E r \in {result} :
        /\ called' = method
        /\ session' = r.self
        /\ raised' = r.raised
        /\ returned' = r.value
        /\ engine_work' = r.engine
        /\ engine_proteins' = r.proteins
        /\ UNCHANGED <<structures, scores>>

\* Homology_model.run_pairwise_alignment()
RunPairwiseAlignment ==
    SessionCall("run_pairwise_alignment",
                run_pairwise_alignment(session, structures, TRUE, TRUE, <<>>))

\* Homology_model.create_ordered_similarity_table(state, query_states, ...)
CreateOrderedSimilarityTable(state, query_states) ==
    SessionCall("create_ordered_similarity_table",
                create_ordered_similarity_table(session, structures, scores,
                                                state, query_states))

\* Homology_model.select_main_template(multi_alignment)
SelectMainTemplate ==
    SessionCall("select_main_template",
                select_main_template(session, structures, scores))

NextSession ==
    \/ RunPairwiseAlignment
    \/ \E state \in States, query_states \in QueryStatesArgs :
          CreateOrderedSimilarityTable(state, query_states)
    \/ SelectMainTemplate

\* Homology_model.run_non_conserved_switcher(main_alignment)
RunNonConservedSwitcher(alignment_input) ==
    \E r \in {run_non_conserved_switcher(session, structures, scores,
                                          residue_table, file_store,
                                          alignment_input)} :
        /\ SessionCall("run_non_conserved_switcher", r)
        /\ switcher' = <<r.switcher>>
        /\ UNCHANGED <<residue_table, file_store>>

SpecSession ==
    InitSession
        /\ [][NextSession /\ UNCHANGED <<gn_vars, merge_vars, pdb_vars, switch_vars>>]_vars

\* create_ordered_similarity_table was the last call and returned a table
TableReturned == called = "create_ordered_similarity_table" /\ raised = ""

\* the place of protein p among the scores the engine produced: a.proteins
\* without the reference loaded at index 0
ProducedAt(p) ==
    CHOOSE k \in 1..(Len(engine_proteins) - 1) : engine_proteins[k + 1] = p

\* C8: the table create_ordered_similarity_table returns is in descending
\* score order, no entry having a higher score than an entry before it, and
\* two candidates with equal scores keep the relative order in which the
\* alignment engine produced their scores.
C8_DescendingAndStable ==
    TableReturned =>
        \A i, j \in 1..Len(returned[1]) :
            i < j =>
                /\ returned[1][i][2] >= returned[1][j][2]
                /\ returned[1][i][2] = returned[1][j][2] =>
                       ProducedAt(returned[1][i][1].parent)
                           < ProducedAt(returned[1][j][1].parent)

\* a table was returned in which two candidates tie behind a candidate with
\* a higher score, one structure per candidate the engine scored
C8_Witness ==
    /\ TableReturned
    /\ Len(returned[1]) = Len(engine_proteins) - 1
    /\ \E i, j, k \in 1..Len(returned[1]) :
          /\ i < j /\ j < k
          /\ returned[1][i][2] > returned[1][j][2]
          /\ returned[1][j][2] = returned[1][k][2]

\* the query_states of the last call list a state no structure has
DeadStateListed ==
    /\ session.query_states.kind = "list"
    /\ \E i \in 1..Len(session.query_states.states) :
          ~\E x \in structures : x.state = session.query_states.states[i]

\* the query_states of the last call are the default and select no structure
DefaultSelectsNothing ==
    /\ session.query_states.kind = "default"
    /\ QueryStructures(structures, {session.state}, session.testing) = <<>>

\* C9: when query_states is a list holding a state with no matching
\* structure, the call that queries by it (run_pairwise_alignment without
\* targets, create_ordered_similarity_table) ends in the AssertionError of the
\* input test before any call on the alignment engine is made; when
\* query_states is the default and selects no structure, no input error is
\* raised and create_ordered_similarity_table returns the empty table.
C9_FailFastOnDeadState ==
    /\ (called \in {"run_pairwise_alignment", "create_ordered_similarity_table"}
            /\ DeadStateListed)
          => (raised = "AssertionError" /\ engine_work = <<>>)
    /\ (called = "create_ordered_similarity_table" /\ DefaultSelectsNothing)
          => (raised = "" /\ returned = << <<>> >>)

\* create_ordered_similarity_table was called over a database that holds
\* structures, none of them in a listed state, and ended in the AssertionError
\* with the engine untouched
C9_Witness ==
    /\ called = "create_ordered_similarity_table"
    /\ structures # {}
    /\ DeadStateListed
    /\ raised = "AssertionError"
    /\ engine_work = <<>>

-----------------------------------------------------------------------------
(* Claims about generic-number arithmetic *)

\* C6 as stated: for every generic number g with a two-digit position (10 to
\* 99), stepping +1 and then -1 returns g.
C6_RoundTripUpTo99 ==
    (gn_trail = <<1, -1>> /\ gn_arg \in ValidGns(gn_delim)) => gn_val = gn_arg

\* C6 amended: for every generic number g with a position from 10 to 98,
\* stepping +1 and then -1 returns g (from 99 the step +1 gives the
\* three-digit position 100, and the step -1 from there gives 10).
C6_RoundTripUpTo98 ==
    (/\ gn_trail = <<1, -1>>
     /\ gn_arg \in ValidGns(gn_delim)
     /\ gn_num_extract(gn_arg, gn_delim).num # 99) => gn_val = gn_arg

C6_Witness ==
    /\ gn_arg = MakeGn(3, "x", 50)
    /\ gn_trail = <<1, -1>>
    /\ gn_val = gn_arg

\* C7 as stated: for the sentinel '/', a 'TMn_end' key, None and any other key
\* that is not <int><delimiter><int>, gn_num_extract returns ('/', '/') and
\* gn_indecer returns '/' for every direction.
C7_SentinelForEveryOtherKey ==
    ~IsGnForm(gn_arg, gn_delim) =>
        /\ gn_pair # <<>> => gn_pair[1] = SentinelPair
        /\ gn_trail # <<>> => gn_val = Sentinel

-----------------------------------------------------------------------------
(* Claims about the alignment merge *)

\* the columns of zip(ref, temp) in which both sides are assigned and their
\* generic numbers differ
DisagreeingColumns ==
    {<<sg, i>> \in (1..Min(Len(ref), Len(temp))) \X (1..MaxPositions + 1) :
        /\ i <= Min(Len(ref[sg]), Len(temp[sg]))
        /\ PosAssigned(ref[sg][i]) /\ PosAssigned(temp[sg][i])
        /\ PosGn(ref[sg][i]) # PosGn(temp[sg][i])}

\* C1 as stated: for every pair of aligned sequences the returned alignment
\* has len(aligned_string) = len(reference_dict) = len(template_dict).
C1_EqualLengths ==
    main_alignment # <<>> =>
        /\ Len(main_alignment[1].aligned_string) = Len(main_alignment[1].reference_dict)
        /\ Len(main_alignment[1].reference_dict) = Len(main_alignment[1].template_dict)

\* C2 as stated: when a column has both sides assigned with different generic
\* numbers, the merge ends in an error outcome and returns no alignment.
C2_DisagreementIsAnError ==
    (main_alignment # <<>> /\ DisagreeingColumns # {}) =>
        main_alignment[1].outcome = "error"

\* the positions the case table is explored over: assigned positions with
\* equal and with different residue codes and generic numbers, a gap and a
\* short-sequence mark
TablePositions ==
    {<<MakeGn(1, "x", 50), TRUE, "A">>, <<MakeGn(1, "x", 50), TRUE, "L">>,
     <<MakeGn(1, "x", 51), TRUE, "A">>,
     <<MakeGn(1, "x", 50), FALSE, "-">>, <<MakeGn(1, "x", 50), FALSE, "_">>}

\* the numbers of columns of at most nsegs segments, at most npos in all
RECURSIVE SumTo(_, _)
SumTo(shape, n) == IF n = 0 THEN 0 ELSE shape[n] + SumTo(shape, n - 1)

Shapes(nsegs, npos) ==
    UNION {{shape \in [1..n -> 0..npos] : SumTo(shape, n) <= npos} : n \in 0..nsegs}

\* one side of the columns cols cut into segments of the lengths of shape
CutSide(cols, shape, side) ==
    [sg \in 1..Len(shape) |->
        [i \in 1..shape[sg] |-> cols[SumTo(shape, sg - 1) + i][side]]]

\* run_main_alignment over the alignments of TablePositions
InitTable ==
    /\ \E shape \in Shapes(MaxSegments, MaxPositions) :
          \E cols \in [1..SumTo(shape, Len(shape)) -> TablePositions \X TablePositions] :
             /\ ref = CutSide(cols, shape, 1)
             /\ temp = CutSide(cols, shape, 2)
    /\ main_alignment = <<>>
    /\ stdout = <<>>
    /\ GnIdle
    /\ PdbIdle
    /\ SessionIdle
    /\ SwitcherIdle

SpecTable == InitTable /\ [][NextMerge /\ UNCHANGED <<gn_vars, pdb_vars, session_vars, switch_vars>>]_vars

\* the columns of zip(ref, temp) that run_main_alignment merges
MergedColumns ==
    {<<sg, i>> \in (1..Min(Len(ref), Len(temp))) \X (1..MaxPositions + 1) :
        i <= Min(Len(ref[sg]), Len(temp[sg]))}

\* the locals of run_main_alignment when the inner loop reaches column i of
\* segment sg
MergedBefore(sg, i) ==
    merge_positions(
        merge_segments(MergeStart, SubSeq(ref, 1, sg - 1), SubSeq(temp, 1, sg - 1), 1),
        SubSeq(ref[sg], 1, i - 1), SubSeq(temp[sg], 1, i - 1), 1)

\* the case table: <<reference value, template value, classification>> of a
\* position pair, <<>> for a pair the table has no row for
CaseTable(ref_position, temp_position) ==
    IF /\ PosAssigned(ref_position) /\ PosAssigned(temp_position)
       /\ PosGn(ref_position) = PosGn(temp_position)
    THEN <<PosCode(ref_position), PosCode(temp_position),
           IF PosCode(ref_position) = PosCode(temp_position)
           THEN PosCode(ref_position) ELSE ".">>
    ELSE IF /\ PosAssigned(ref_position) /\ ~PosAssigned(temp_position)
            /\ PosCode(temp_position) = "-"
    THEN <<PosCode(ref_position), "-", "-">>
    ELSE IF /\ PosAssigned(ref_position) /\ ~PosAssigned(temp_position)
            /\ PosCode(temp_position) = "_"
    THEN <<PosCode(ref_position), "x", "x">>
    ELSE IF /\ ~PosAssigned(ref_position) /\ PosCode(ref_position) = "-"
            /\ PosAssigned(temp_position)
    THEN <<"-", PosCode(temp_position), "-">>
    ELSE IF /\ ~PosAssigned(ref_position) /\ PosCode(ref_position) = "-"
            /\ ~PosAssigned(temp_position) /\ PosCode(temp_position) = "-"
    THEN <<"-", "-", "-">>
    ELSE <<>>

\* the classifications the case table gives the segments sg.. of the run,
\* each segment closed by '/'
RECURSIVE TableString(_)
TableString(sg) ==
    IF sg > Min(Len(ref), Len(temp)) THEN <<>>
    ELSE [i \in 1..Min(Len(ref[sg]), Len(temp[sg])) |->
             CaseTable(ref[sg][i], temp[sg][i])[3]]
            \o <<"/">> \o TableString(sg + 1)

\* C12: every position pair that run_main_alignment merges and the case
\* table has a row for appends that row's reference value, template value
\* and classification to the three strings, stores the reference value under
\* the reference position's generic number and the template value under the
\* template position's, and prints nothing; when every merged pair has a
\* row, the returned aligned_string is the rows' classifications in order,
\* each segment closed by '/'.
C12_CaseTable ==
    main_alignment # <<>> =>
        /\ \A col \in MergedColumns :
              LET ref_position == ref[col[1]][col[2]]
                  temp_position == temp[col[1]][col[2]]
                  row == CaseTable(ref_position, temp_position)
                  before == MergedBefore(col[1], col[2])
                  after == MergedBefore(col[1], col[2] + 1)
              IN row # <<>> =>
                    /\ after.reference_string = Append(before.reference_string, row[1])
                    /\ after.template_string = Append(before.template_string, row[2])
                    /\ after.matching_string = Append(before.matching_string, row[3])
                    /\ DictHas(after.reference_dict, PosGn(ref_position))
                    /\ DictGet(after.reference_dict, PosGn(ref_position)) = row[1]
                    /\ DictHas(after.template_dict, PosGn(temp_position))
                    /\ DictGet(after.template_dict, PosGn(temp_position)) = row[2]
                    /\ after.printed = before.printed
        /\ (\A col \in MergedColumns :
               CaseTable(ref[col[1]][col[2]], temp[col[1]][col[2]]) # <<>>)
              => main_alignment[1].aligned_string = TableString(1)

\* a merge of two columns, every one with a row in the table: one with both
\* sides assigned and different residue codes, one with the template's
\* sequence too short
C12_Witness ==
    /\ main_alignment # <<>>
    /\ \A col \in MergedColumns :
          CaseTable(ref[col[1]][col[2]], temp[col[1]][col[2]]) # <<>>
    /\ \E col \in MergedColumns :
          CaseTable(ref[col[1]][col[2]], temp[col[1]][col[2]])[3] = "."
    /\ \E col \in MergedColumns :
          CaseTable(ref[col[1]][col[2]], temp[col[1]][col[2]])[3] = "x"
    /\ main_alignment[1].aligned_string \in {<<".", "x", "/">>, <<".", "/", "x", "/">>}

-----------------------------------------------------------------------------
(* Claims about the coordinate parser *)

\* the file can be read and its first line is an ATOM line
PdbReadable == pdb_file.exists /\ pdb_file.lines # <<>> /\ pdb_file.lines[1].kind = "ATOM"

\* the requested generic numbers, re-keyed with '.'
RequestedKeys == {replace(pdb_request[i], "x", ".") : i \in 1..Len(pdb_request)}

\* C5 as stated: for a parsed StructureArray, fetch_lines_from_pdb raises
\* nothing; its result holds every requested generic number that is a key of
\* the array, re-keyed with '.', and simply lacks the others.
C5_MissingKeyOmitted ==
    LET arr == pdb_array_creator(pdb_file)
    IN (pdb_fetched # <<>> /\ arr.raised = "") =>
          /\ pdb_fetched[1].raised = ""
          /\ \A k \in RequestedKeys :
                DictHas(pdb_fetched[1].output, k) <=> DictHas(arr.out_array, k)

\* C5 amended: for a parsed StructureArray, fetch_lines_from_pdb raises
\* KeyError and returns no mapping when a requested generic number is no key
\* of the array; when all are keys, it returns exactly the requested generic
\* numbers, re-keyed with '.', each with its residue's atom block.
C5_MissingKeyRaises ==
    LET arr == pdb_array_creator(pdb_file)
    IN (pdb_fetched # <<>> /\ arr.raised = "") =>
          IF \E k \in RequestedKeys : ~DictHas(arr.out_array, k)
          THEN pdb_fetched[1] = [raised |-> "KeyError", output |-> <<>>]
          ELSE /\ pdb_fetched[1].raised = ""
               /\ {pdb_fetched[1].output[i][1] :
                      i \in 1..Len(pdb_fetched[1].output)} = RequestedKeys
               /\ \A k \in RequestedKeys :
                     DictGet(pdb_fetched[1].output, k) = DictGet(arr.out_array, k)

\* a fetch that was asked for a present and for an absent generic number
C5_Witness ==
    /\ pdb_fetched # <<>>
    /\ pdb_array_creator(pdb_file).raised = ""
    /\ \E k \in RequestedKeys : DictHas(pdb_array_creator(pdb_file).out_array, k)
    /\ \E k \in RequestedKeys : ~DictHas(pdb_array_creator(pdb_file).out_array, k)
    /\ pdb_fetched[1].raised = "KeyError"

\* a residue's atom block has no CA line, or one without a generic-number field
Malformed(block) == ~DictHas(block, "CA") \/ ~ca_matches(DictGet(block, "CA"))

\* C10 as stated: a residue whose atom block has no CA record, or whose CA
\* record has no parsable generic-number field, is kept under its residue
\* number with its block unchanged, every well-formed residue has the key
\* its own CA record gives, and no exception is raised.
C10_MalformedResidueKept ==
    (pdb_parsed # <<>> /\ PdbReadable) =>
        LET blocks == pdb_blocks(pdb_file.lines)
        IN \A i \in 1..Len(blocks) :
              Malformed(blocks[i][2]) =>
                 /\ pdb_parsed[1].raised = ""
                 /\ DictHas(pdb_parsed[1].out_array, blocks[i][1])
                 /\ DictGet(pdb_parsed[1].out_array, blocks[i][1]) = blocks[i][2]
                 /\ \A j \in 1..Len(blocks) :
                       ~Malformed(blocks[j][2]) =>
                          DictHas(pdb_parsed[1].out_array,
                                  ca_key(DictGet(blocks[j][2], "CA")))


\* the file holds atom records only, no two of them for the same atom of the
\* same residue
AtomRecordsOnly ==
    /\ \A i \in 1..Len(pdb_file.lines) : pdb_file.lines[i].kind = "ATOM"
    /\ \A i, j \in 1..Len(pdb_file.lines) :
          (/\ pdb_file.lines[i].res = pdb_file.lines[j].res
           /\ pdb_file.lines[i].atom = pdb_file.lines[j].atom)
              => pdb_file.lines[i] = pdb_file.lines[j]

\* the atom records of the file that carry residue number n
RecordsOf(n) ==
    {pdb_file.lines[i] : i \in {j \in 1..Len(pdb_file.lines) : pdb_file.lines[j].res = n}}

\* the atom records a block holds
BlockRecords(block) == {block[i][2] : i \in 1..Len(block)}

\* C11 as stated: for every sequence of atom records, whether the residue
\* numbers repeat, increase by one or jump, the block-building pass of
\* pdb_array_creator yields one entry per distinct residue number of the
\* file, holding exactly that residue's atom records; the residue read just
\* before a jump is not lost.
C11_OneBlockPerResidue ==
    (pdb_parsed # <<>> /\ PdbReadable /\ AtomRecordsOnly) =>
        LET blocks == pdb_blocks(pdb_file.lines)
        IN /\ \A i \in 1..Len(pdb_file.lines) :
                 /\ DictHas(blocks, IntKey(pdb_file.lines[i].res))
                 /\ BlockRecords(DictGet(blocks, IntKey(pdb_file.lines[i].res)))
                       = RecordsOf(pdb_file.lines[i].res)
           /\ \A k \in 1..Len(blocks) :
                 \E i \in 1..Len(pdb_file.lines) :
                    blocks[k][1] = IntKey(pdb_file.lines[i].res)

-----------------------------------------------------------------------------
(* The bulge search as a state machine: the session of Command.handle,     *)
(* HomologyModeling('gp139_human', 'Inactive'), over a database with       *)
(* residues and coordinate files; run_pairwise_alignment and               *)
(* run_non_conserved_switcher are called in any order.                     *)

InitSwitcher ==
    /\ structures \in SwitcherDatabases
    /\ scores \in SwitcherSimilarities
    /\ session = NewSession("Inactive", DefaultStates, FALSE)
    /\ \E kind \in KindsOver(structures) :
          /\ residue_table = ResiduesOf(kind)
          /\ file_store = FilesOf(kind)
    /\ switcher = <<>>
    /\ called = ""
    /\ raised = ""
    /\ returned = <<>>
    /\ engine_work = <<>>
    /\ engine_proteins = <<>>
    /\ GnIdle
    /\ MergeIdle
    /\ PdbIdle

NextSwitcher ==
    \/ RunPairwiseAlignment /\ UNCHANGED switch_vars
    \/ \E alignment_input \in SwitcherAlignments :
          RunNonConservedSwitcher(alignment_input)

SpecSwitcher ==
    InitSwitcher /\ [][NextSwitcher /\ UNCHANGED <<gn_vars, merge_vars, pdb_vars>>]_vars


\* the calls of bulge_in_reference the last run_non_conserved_switcher made
BulgeCalls ==
    IF called = "run_non_conserved_switcher" /\ switcher # <<>>
    THEN switcher[1].bulges ELSE <<>>

\* whether the window of gn can be fetched from the file of a structure
WindowFetched(structure, gn) ==
    fetch_lines_from_pdb(file_store[structure.pdb], BulgeWindow(gn)).raised = ""

\* the pdbs of the first n structures of a sequence
FirstPdbs(candidates, n) == [k \in 1..n |-> candidates[k].pdb]

\* a call c of bulge_in_reference probed the first candidates of a ranked
\* sequence in order, every probe but the last failing, and went as far as
\* the first candidate whose window can be fetched, which it made the template
ProbedInRankOrder(c, candidates) ==
    LET probed == c.found.bulge.probed
        fetchable == {k \in 1..Len(candidates) : WindowFetched(candidates[k], c.gn)}
    IN /\ Len(probed) <= Len(candidates)
       /\ [k \in 1..Len(probed) |-> probed[k][1]] = FirstPdbs(candidates, Len(probed))
       /\ \A k \in 1..(Len(probed) - 1) : probed[k][2] # ""
       /\ fetchable # {} =>
             /\ Len(probed) = CHOOSE k \in fetchable : \A j \in fetchable : k <= j
             /\ probed[Len(probed)][2] = ""
             /\ c.found.raised = ""
             /\ c.found.bulge.template = Assigned(<<candidates[Len(probed)]>>)
             /\ c.found.value # <<>>

\* C3 as stated: for a reference-side bulge at gn, bulge_in_reference probes
\* the candidates of the similarity table in rank order and sets the
\* sub-template to the first candidate of the table whose fetch of the window
\* [gn-2, gn-1, gn, gn+1, gn+2] succeeds; no candidate ranked after a
\* successful one is probed or selected.
C3_FirstFetchableOfTable ==
    \A i \in 1..Len(BulgeCalls) :
        ProbedInRankOrder(BulgeCalls[i], DictKeys(session.similarity_table_all[1]))

\* C3 amended: for a reference-side bulge at gn, bulge_in_reference probes, in
\* rank order, the candidates of the similarity table whose parent protein
\* has a residue with generic number gn, and sets the sub-template to the
\* first of them whose fetch of the window succeeds; no candidate ranked
\* after a successful one is probed or selected.
C3_FirstFetchableWithResidue ==
    \A i \in 1..Len(BulgeCalls) :
        ProbedInRankOrder(
            BulgeCalls[i],
            bulge_templates_of(BulgeCalls[i].gn, session.similarity_table_all[1],
                               residue_table))

\* a bulge was resolved at the second probe: the first candidate with the
\* residue failed, the second became the template, and a third candidate
\* with the residue was left unprobed
C3_Witness ==
    \E i \in 1..Len(BulgeCalls) :
        /\ Len(BulgeCalls[i].found.bulge.probed) = 2
        /\ BulgeCalls[i].found.bulge.probed[1][2] # ""
        /\ BulgeCalls[i].found.bulge.probed[2][2] = ""
        /\ BulgeCalls[i].found.bulge.template.value # <<>>
        /\ Len(bulge_templates_of(BulgeCalls[i].gn, session.similarity_table_all[1],
                                  residue_table)) = 3

\* no candidate the call c probes yields the window
NothingFetchable(c) ==
    \A k \in 1..Len(bulge_templates_of(c.gn, session.similarity_table_all[1],
                                       residue_table)) :
        ~WindowFetched(bulge_templates_of(c.gn, session.similarity_table_all[1],
                                          residue_table)[k], c.gn)

\* C4: when no candidate of the similarity table yields the window for a
\* reference-side bulge (every fetch fails, every file is missing, or no
\* candidate qualifies), bulge_in_reference finishes normally with the
\* sub-template None and the result None, and the scan of
\* run_non_conserved_switcher goes on to the next position: the call returns.
C4_UnresolvedIsNoFailure ==
    \A i \in 1..Len(BulgeCalls) :
        NothingFetchable(BulgeCalls[i]) =>
            /\ BulgeCalls[i].found.raised = ""
            /\ BulgeCalls[i].found.bulge.template = Assigned(<<>>)
            /\ BulgeCalls[i].found.value = <<>>
            /\ raised = ""
            /\ switcher[1].scanned = zip_length(switcher[1].alignment_input)

\* the last call was run_non_conserved_switcher and it reached its first loop
\* (the both-states table was built, which takes the alignment engine)
ScanEntered ==
    called = "run_non_conserved_switcher" /\ switcher # <<>> /\ engine_work # <<>>

\* key is an assigned position of the side d of the merged alignment: it is
\* there and holds neither a gap nor a boundary marker
FlankAssigned(d, key) == DictHas(d, key) /\ DictGet(d, key) \notin {"-", "/"}

\* the side d holds a gap at key whose two flanks are assigned positions
WellFlankedGap(d, key, gn) ==
    /\ DictGet(d, key) = "-"
    /\ FlankAssigned(d, gn_indecer(gn, "x", -1))
    /\ FlankAssigned(d, gn_indecer(gn, "x", 1))

\* position i of the alignment a is a gap that neither side holds between
\* two assigned flanks
UnflankedGap(a, i) ==
    /\ a.aligned_string[i] = "-"
    /\ ~WellFlankedGap(a.reference_dict, a.reference_dict[i][1], a.reference_dict[i][1])
    /\ ~WellFlankedGap(a.template_dict, a.template_dict[i][1], a.reference_dict[i][1])

\* the keys of the records of the four lists
RecordKeys(w) ==
    {w.ref_bulge_list[k][1] : k \in 1..Len(w.ref_bulge_list)}
        \cup {w.temp_bulge_list[k][1] : k \in 1..Len(w.temp_bulge_list)}
        \cup {w.ref_const_list[k][1] : k \in 1..Len(w.ref_const_list)}
        \cup {w.temp_const_list[k][1] : k \in 1..Len(w.temp_const_list)}

\* C13 as stated: a gap of the classification string whose flank gn-1 or
\* gn+1 is not an assigned position of the merged alignment (the gap is the
\* first or last position of its segment, or the flank is a gap or a
\* boundary marker) gives no bulge and no constriction record, and the scan
\* does not end at that position with an exception.
C13_UnflankedGapSkipped ==
    ScanEntered =>
        \A i \in 1..zip_length(switcher[1].alignment_input) :
           UnflankedGap(switcher[1].alignment_input, i) =>
              /\ ~(switcher[1].raised # "" /\ switcher[1].scanned = i - 1)
              /\ switcher[1].alignment_input.reference_dict[i][1]
                    \notin RecordKeys(switcher[1])
              /\ constriction(switcher[1].alignment_input.reference_dict,
                              switcher[1].alignment_input.reference_dict[i][1])[1]
                    \notin RecordKeys(switcher[1])

-----------------------------------------------------------------------------
(* The model build as a state machine: the session is constructed with any *)
(* query_states; run_pairwise_alignment, select_main_template and          *)
(* run_non_conserved_switcher are called in any order over a repository in *)
(* which every candidate has its residues and its coordinate file.         *)

InitFrame ==
    /\ structures \in SwitcherDatabases
    /\ scores \in SwitcherSimilarities
    /\ \E query_states \in QueryStatesArgs :
          session = NewSession("Inactive", query_states, FALSE)
    /\ residue_table = ResiduesOf([p \in Proteins |-> "full"])
    /\ file_store = FilesOf([p \in Proteins |-> "full"])
    /\ switcher = <<>>
    /\ called = ""
    /\ raised = ""
    /\ returned = <<>>
    /\ engine_work = <<>>
    /\ engine_proteins = <<>>
    /\ GnIdle
    /\ MergeIdle
    /\ PdbIdle

NextFrame ==
    \/ RunPairwiseAlignment /\ UNCHANGED switch_vars
    \/ SelectMainTemplate /\ UNCHANGED switch_vars
    \/ \E alignment_input \in SwitcherAlignments :
          RunNonConservedSwitcher(alignment_input)

SpecFrame ==
    InitFrame /\ [][NextFrame /\ UNCHANGED <<gn_vars, merge_vars, pdb_vars>>]_vars

\* C14 as stated: a call of run_non_conserved_switcher that builds the
\* both-states similarity table leaves self.query_states and self.state as
\* they were, and select_main_template called after it ends as it would
\* have ended before it, with the same main template.
C14_SwitcherKeepsTemplateSearch ==
    [][(called' = "run_non_conserved_switcher" /\ engine_work' # <<>>) =>
          /\ session'.query_states = session.query_states
          /\ session'.state = session.state
          /\ select_main_template(session', structures, scores).raised
                = select_main_template(session, structures, scores).raised
          /\ select_main_template(session', structures, scores).value
                = select_main_template(session, structures, scores).value]_vars

====
